---------------------------- MODULE Spec2Model ----------------------------
(***************************************************************************)
(* The request-level caching core of src/main.py: the two module-level     *)
(* stores FUND_CACHE and STOCK_CACHE, the get-or-fetch functions           *)
(* get_cached_fund_data and get_cached_stock_data run by concurrent        *)
(* request threads, the time-windowed fund TTL, and the cache-key builders *)
(* of the routes.                                                          *)
(*                                                                         *)
(* Time is in whole seconds of Istanbul wall-clock time, counted from      *)
(* Monday 00:00:00, so that weekday() and hour are computed as datetime    *)
(* computes them.                                                          *)
(***************************************************************************)
EXTENDS Integers, Sequences, FiniteSets, TLC

VARIABLES
    FUND_CACHE,     \* main.py:81   key -> [data, timestamp]
    STOCK_CACHE,    \* main.py:82   key -> [data, timestamp]
    clock,          \* the wall clock get_turkey_time() reads
    pc,             \* per request thread: "idle" (no call running), "hit" (about to
                    \* return entry['data']) or "fetch" (inside fetch_func)
    fn,             \* per thread: the function of its current or last call
    key,            \* per thread: the argument code / symbol of that call
    ttl_seconds,    \* per thread: local ttl_seconds
    now,            \* per thread: local now
    entry,          \* per thread: local entry (NoEntry while unassigned)
    ret,            \* per thread: what the call handed to its caller
    nfetch,         \* per thread: fetch_func invocations made by this call
    nlog,           \* per thread: 'CACHE MISS' lines printed by this call
    poisoned,       \* per store and key: a fetch failed and nothing was stored since
    ncalls,         \* calls begun so far (bounded by MaxCalls)
    nticks,         \* clock advances so far (bounded by MaxTicks)
    probe           \* state of the provider, route-key and policy specifications

vars == <<FUND_CACHE, STOCK_CACHE, clock, pc, fn, key, ttl_seconds, now, entry,
          ret, nfetch, nlog, poisoned, ncalls, nticks, probe>>

cacheVars == <<FUND_CACHE, STOCK_CACHE>>
localVars == <<fn, key, ttl_seconds, now, entry, ret, nfetch, nlog>>

-----------------------------------------------------------------------------
(* Bounds and input sets *)

MaxCalls == 2
MaxTicks == 2

Procs == {"p1", "p2"}
Keys == {"a", "b"}
\* what a fetch_func may return: None, or some payload
Values == {"None", "V1"}
\* ttl_seconds arguments of get_cached_stock_data (the default, and the bond routes')
StockTTLs == {60, 14400}
\* amounts by which the clock may advance between two steps
Deltas == {1, 59, 900, 14400}

\* day 0 = Monday .. 6 = Sunday
At(day, h, m, s) == day * 86400 + h * 3600 + m * 60 + s
\* Wednesday 14:44:00 (hot window, 16 minutes before it closes)
StartTimes == {At(2, 14, 44, 0)}

NoEntry == [data |-> "NoData", timestamp |-> -1]
NoData == "NoData"
Raised == "Raised"
NoProbe == [kind |-> "none"]

-----------------------------------------------------------------------------
(* datetime arithmetic *)

\* datetime.weekday(): 0 = Monday .. 6 = Sunday
weekday(t) == (t \div 86400) % 7
\* datetime.hour
hour(t) == (t % 86400) \div 3600
\* get_turkey_time(): the current Istanbul time
get_turkey_time == clock

-----------------------------------------------------------------------------
(* Freshness policy *)

HOT_TTL == 900
COLD_TTL == 14400

\* the hot window closed at hour 15 inclusive, as the comment at main.py:99 words it
fund_ttl_until_15(t) ==
    LET is_weekday == weekday(t) < 5
        current_hour == hour(t)
    IN  IF is_weekday /\ 10 <= current_hour /\ current_hour <= 15
        THEN HOT_TTL
        ELSE COLD_TTL

\* main.py:95-109: the TTL of the fund cache as of `t`
fund_ttl(t) ==
    LET is_weekday == weekday(t) < 5
        current_hour == hour(t)
    IN  IF is_weekday /\ 10 <= current_hour /\ current_hour <= 14
        THEN HOT_TTL
        ELSE COLD_TTL

\* the comparison made non-strict
is_fresh_le(t, e, ttl) == (t - e.timestamp) <= ttl

\* main.py:114-116 and 135: age < ttl_seconds
is_fresh(t, e, ttl) == (t - e.timestamp) < ttl

-----------------------------------------------------------------------------
(* Cache store *)

EmptyCache == [k \in {} |-> NoEntry]

\* a store that skips falsy payloads (`if data:` before the assignment)
put_if_truthy(cache, k, d, t) ==
    IF d = "None" THEN cache ELSE (k :> [data |-> d, timestamp |-> t]) @@ cache

\* a refresh that mutates the existing entry in place and leaves its timestamp
put_data_only(cache, k, d, t) ==
    IF k \in DOMAIN cache
    THEN [cache EXCEPT ![k].data = d]
    ELSE (k :> [data |-> d, timestamp |-> t]) @@ cache

\* FUND_CACHE[code] = {'data': data, 'timestamp': now}
put(cache, k, d, t) == (k :> [data |-> d, timestamp |-> t]) @@ cache

TypeOK ==
    /\ DOMAIN FUND_CACHE \subseteq Keys
    /\ DOMAIN STOCK_CACHE \subseteq Keys
    /\ pc \in [Procs -> {"idle", "hit", "fetch"}]
    /\ fn \in [Procs -> {"fund", "stock"}]
    /\ key \in [Procs -> Keys]
    /\ ncalls \in 0..MaxCalls
    /\ nticks \in 0..MaxTicks

\* The service has just started (both stores empty, main.py:81-82), or it has
\* already answered a first request for key "a" from each store at the current
\* instant.
InitState ==
    /\ \E warm \in {EmptyCache, put(EmptyCache, "a", "V1", clock)} :
          FUND_CACHE = warm /\ STOCK_CACHE = warm
    /\ pc = [p \in Procs |-> "idle"]
    /\ fn = [p \in Procs |-> "stock"]
    /\ key = [p \in Procs |-> "a"]
    /\ ttl_seconds = [p \in Procs |-> 60]
    /\ now = [p \in Procs |-> 0]
    /\ entry = [p \in Procs |-> NoEntry]
    /\ ret = [p \in Procs |-> NoData]
    /\ nfetch = [p \in Procs |-> 0]
    /\ nlog = [p \in Procs |-> 0]
    /\ poisoned = [s \in {"fund", "stock"} |-> {}]
    /\ ncalls = 0
    /\ nticks = 0

Init ==
    /\ clock \in StartTimes
    /\ probe = NoProbe
    /\ InitState

-----------------------------------------------------------------------------
(* The get-or-fetch functions.  A request thread runs one call at a time;   *)
(* threads interleave while one of them is inside fetch_func.               *)

\* the entry a failed call saw is still what the store holds for the key
unchanged_since_check(cache, p) ==
    IF key[p] \in DOMAIN cache THEN cache[key[p]] = entry[p] ELSE entry[p] = NoEntry

\* the call is over: its locals are gone (fn and key go on naming the call
\* that `ret` is the outcome of)
Return(p) ==
    /\ pc' = [pc EXCEPT ![p] = "idle"]
    /\ UNCHANGED <<fn, key>>
    /\ ttl_seconds' = [ttl_seconds EXCEPT ![p] = 60]
    /\ now' = [now EXCEPT ![p] = 0]
    /\ entry' = [entry EXCEPT ![p] = NoEntry]

(* get_cached_fund_data(code, fetch_func), main.py:87-124 *)

\* a lookup that falls back to the other store when the key is not in FUND_CACHE
fund_begin_shared_lookup(p, k) ==
    LET t == get_turkey_time
        ttl == fund_ttl(t)
        cache == IF k \in DOMAIN FUND_CACHE THEN FUND_CACHE ELSE STOCK_CACHE
    IN  /\ pc[p] = "idle"
        /\ ncalls < MaxCalls
        /\ ncalls' = ncalls + 1
        /\ fn' = [fn EXCEPT ![p] = "fund"]
        /\ key' = [key EXCEPT ![p] = k]
        /\ now' = [now EXCEPT ![p] = t]
        /\ ttl_seconds' = [ttl_seconds EXCEPT ![p] = ttl]
        /\ entry' = [entry EXCEPT ![p] = IF k \in DOMAIN cache THEN cache[k] ELSE NoEntry]
        /\ ret' = [ret EXCEPT ![p] = NoData]
        /\ nfetch' = [nfetch EXCEPT ![p] = 0]
        /\ IF k \in DOMAIN cache /\ is_fresh(t, cache[k], ttl)
           THEN /\ nlog' = [nlog EXCEPT ![p] = 0]
                /\ pc' = [pc EXCEPT ![p] = "hit"]
           ELSE /\ nlog' = [nlog EXCEPT ![p] = 1]
                /\ pc' = [pc EXCEPT ![p] = "fetch"]
        /\ UNCHANGED <<cacheVars, clock, poisoned, nticks, probe>>

\* lines 92-109: read the clock; derive the TTL from weekday and hour;
\* lines 112-116: look the key up and judge the entry's age; a miss is printed
\* (line 121) and fetch_func is entered
fund_begin(p, k) ==
    LET t == get_turkey_time
        ttl == fund_ttl(t)
    IN  /\ pc[p] = "idle"
        /\ ncalls < MaxCalls
        /\ ncalls' = ncalls + 1
        /\ fn' = [fn EXCEPT ![p] = "fund"]
        /\ key' = [key EXCEPT ![p] = k]
        /\ now' = [now EXCEPT ![p] = t]
        /\ ttl_seconds' = [ttl_seconds EXCEPT ![p] = ttl]
        /\ entry' = [entry EXCEPT ![p] = IF k \in DOMAIN FUND_CACHE THEN FUND_CACHE[k] ELSE NoEntry]
        /\ ret' = [ret EXCEPT ![p] = NoData]
        /\ nfetch' = [nfetch EXCEPT ![p] = 0]
        /\ IF k \in DOMAIN FUND_CACHE /\ is_fresh(t, FUND_CACHE[k], ttl)
           THEN /\ nlog' = [nlog EXCEPT ![p] = 0]
                /\ pc' = [pc EXCEPT ![p] = "hit"]
           ELSE /\ nlog' = [nlog EXCEPT ![p] = 1]
                /\ pc' = [pc EXCEPT ![p] = "fetch"]
        /\ UNCHANGED <<cacheVars, clock, poisoned, nticks, probe>>

\* a hit that also re-stamps the entry it read (sliding expiry)
fund_hit_touch(p) ==
    /\ pc[p] = "hit"
    /\ fn[p] = "fund"
    /\ ret' = [ret EXCEPT ![p] = entry[p].data]
    /\ FUND_CACHE' = put(FUND_CACHE, key[p], entry[p].data, now[p])
    /\ Return(p)
    /\ UNCHANGED <<STOCK_CACHE, clock, nfetch, nlog, poisoned, ncalls, nticks, probe>>

\* line 118: return entry['data']
fund_hit(p) ==
    /\ pc[p] = "hit"
    /\ fn[p] = "fund"
    /\ ret' = [ret EXCEPT ![p] = entry[p].data]
    /\ Return(p)
    /\ UNCHANGED <<cacheVars, clock, nfetch, nlog, poisoned, ncalls, nticks, probe>>

\* the entry is stamped with the clock read when fetch_func has returned
fund_fetch_stamp_on_completion(p, v) ==
    /\ pc[p] = "fetch"
    /\ fn[p] = "fund"
    /\ nfetch' = [nfetch EXCEPT ![p] = @ + 1]
    /\ FUND_CACHE' = put(FUND_CACHE, key[p], v, get_turkey_time)
    /\ ret' = [ret EXCEPT ![p] = v]
    /\ poisoned' = [poisoned EXCEPT !["fund"] = {x \in @ : x[1] # key[p]}]
    /\ Return(p)
    /\ UNCHANGED <<STOCK_CACHE, clock, nlog, ncalls, nticks, probe>>

\* lines 122-124: fetch_func() returns v, which is stored under the key with the
\* timestamp read at the start of the call, and returned
fund_fetch(p, v) ==
    /\ pc[p] = "fetch"
    /\ fn[p] = "fund"
    /\ nfetch' = [nfetch EXCEPT ![p] = @ + 1]
    /\ FUND_CACHE' = put(FUND_CACHE, key[p], v, now[p])
    /\ ret' = [ret EXCEPT ![p] = v]
    /\ poisoned' = [poisoned EXCEPT !["fund"] = {x \in @ : x[1] # key[p]}]
    /\ Return(p)
    /\ UNCHANGED <<STOCK_CACHE, clock, nlog, ncalls, nticks, probe>>

\* a failed fetch that caches None under the key (negative caching)
fund_fetch_raise_negative_cache(p) ==
    /\ pc[p] = "fetch"
    /\ fn[p] = "fund"
    /\ nfetch' = [nfetch EXCEPT ![p] = @ + 1]
    /\ ret' = [ret EXCEPT ![p] = Raised]
    /\ FUND_CACHE' = put(FUND_CACHE, key[p], "None", now[p])
    /\ poisoned' = IF unchanged_since_check(FUND_CACHE, p)
                   THEN [poisoned EXCEPT !["fund"] = @ \cup {<<key[p], ttl_seconds[p]>>}]
                   ELSE poisoned
    /\ Return(p)
    /\ UNCHANGED <<STOCK_CACHE, clock, nlog, ncalls, nticks, probe>>

\* a failed fetch that drops the entry it found stale (invalidate on error)
fund_fetch_raise_evict(p) ==
    /\ pc[p] = "fetch"
    /\ fn[p] = "fund"
    /\ nfetch' = [nfetch EXCEPT ![p] = @ + 1]
    /\ ret' = [ret EXCEPT ![p] = Raised]
    /\ FUND_CACHE' = [k \in DOMAIN FUND_CACHE \ {key[p]} |-> FUND_CACHE[k]]
    /\ poisoned' = [poisoned EXCEPT !["fund"] = @ \cup {<<key[p], ttl_seconds[p]>>}]
    /\ Return(p)
    /\ UNCHANGED <<STOCK_CACHE, clock, nlog, ncalls, nticks, probe>>

\* line 122: fetch_func() raises; the exception leaves the function, nothing below runs
fund_fetch_raise(p) ==
    /\ pc[p] = "fetch"
    /\ fn[p] = "fund"
    /\ nfetch' = [nfetch EXCEPT ![p] = @ + 1]
    /\ ret' = [ret EXCEPT ![p] = Raised]
    /\ poisoned' = IF unchanged_since_check(FUND_CACHE, p)
                   THEN [poisoned EXCEPT !["fund"] = @ \cup {<<key[p], ttl_seconds[p]>>}]
                   ELSE poisoned
    /\ Return(p)
    /\ UNCHANGED <<cacheVars, clock, nlog, ncalls, nticks, probe>>

(* get_cached_stock_data(symbol, fetch_func, ttl_seconds=60), main.py:126-143 *)

\* a lookup that deletes the entry it finds expired before fetching
stock_begin_evict_expired(p, k, ttl_arg) ==
    LET t == get_turkey_time
        ttl == ttl_arg
    IN  /\ pc[p] = "idle"
        /\ ncalls < MaxCalls
        /\ ncalls' = ncalls + 1
        /\ fn' = [fn EXCEPT ![p] = "stock"]
        /\ key' = [key EXCEPT ![p] = k]
        /\ now' = [now EXCEPT ![p] = t]
        /\ ttl_seconds' = [ttl_seconds EXCEPT ![p] = ttl]
        /\ entry' = [entry EXCEPT ![p] = IF k \in DOMAIN STOCK_CACHE THEN STOCK_CACHE[k] ELSE NoEntry]
        /\ ret' = [ret EXCEPT ![p] = NoData]
        /\ nfetch' = [nfetch EXCEPT ![p] = 0]
        /\ IF k \in DOMAIN STOCK_CACHE /\ is_fresh(t, STOCK_CACHE[k], ttl)
           THEN /\ nlog' = [nlog EXCEPT ![p] = 0]
                /\ pc' = [pc EXCEPT ![p] = "hit"]
                /\ STOCK_CACHE' = STOCK_CACHE
           ELSE /\ nlog' = [nlog EXCEPT ![p] = 1]
                /\ pc' = [pc EXCEPT ![p] = "fetch"]
                /\ STOCK_CACHE' = [j \in DOMAIN STOCK_CACHE \ {k} |-> STOCK_CACHE[j]]
        /\ UNCHANGED <<FUND_CACHE, clock, poisoned, nticks, probe>>

\* a call that finds another call already fetching its key serves the entry it
\* found, stale as it is, instead of fetching too (stale-while-revalidate)
stock_begin_stale_while_revalidate(p, k, ttl_arg) ==
    LET t == get_turkey_time
        ttl == ttl_arg
        in_flight == \E q \in Procs \ {p} : pc[q] = "fetch" /\ fn[q] = "stock" /\ key[q] = k
    IN  /\ pc[p] = "idle"
        /\ ncalls < MaxCalls
        /\ ncalls' = ncalls + 1
        /\ fn' = [fn EXCEPT ![p] = "stock"]
        /\ key' = [key EXCEPT ![p] = k]
        /\ now' = [now EXCEPT ![p] = t]
        /\ ttl_seconds' = [ttl_seconds EXCEPT ![p] = ttl]
        /\ entry' = [entry EXCEPT ![p] = IF k \in DOMAIN STOCK_CACHE THEN STOCK_CACHE[k] ELSE NoEntry]
        /\ ret' = [ret EXCEPT ![p] = NoData]
        /\ nfetch' = [nfetch EXCEPT ![p] = 0]
        /\ IF k \in DOMAIN STOCK_CACHE /\ (is_fresh(t, STOCK_CACHE[k], ttl) \/ in_flight)
           THEN /\ nlog' = [nlog EXCEPT ![p] = 0]
                /\ pc' = [pc EXCEPT ![p] = "hit"]
           ELSE /\ nlog' = [nlog EXCEPT ![p] = 1]
                /\ pc' = [pc EXCEPT ![p] = "fetch"]
        /\ UNCHANGED <<cacheVars, clock, poisoned, nticks, probe>>

\* lines 131: read the clock; ttl_seconds is the caller's argument;
\* lines 133-135: look the key up and judge the entry's age; a miss is printed
\* (line 140) and fetch_func is entered
stock_begin(p, k, ttl_arg) ==
    LET t == get_turkey_time
        ttl == ttl_arg
    IN  /\ pc[p] = "idle"
        /\ ncalls < MaxCalls
        /\ ncalls' = ncalls + 1
        /\ fn' = [fn EXCEPT ![p] = "stock"]
        /\ key' = [key EXCEPT ![p] = k]
        /\ now' = [now EXCEPT ![p] = t]
        /\ ttl_seconds' = [ttl_seconds EXCEPT ![p] = ttl]
        /\ entry' = [entry EXCEPT ![p] = IF k \in DOMAIN STOCK_CACHE THEN STOCK_CACHE[k] ELSE NoEntry]
        /\ ret' = [ret EXCEPT ![p] = NoData]
        /\ nfetch' = [nfetch EXCEPT ![p] = 0]
        /\ IF k \in DOMAIN STOCK_CACHE /\ is_fresh(t, STOCK_CACHE[k], ttl)
           THEN /\ nlog' = [nlog EXCEPT ![p] = 0]
                /\ pc' = [pc EXCEPT ![p] = "hit"]
           ELSE /\ nlog' = [nlog EXCEPT ![p] = 1]
                /\ pc' = [pc EXCEPT ![p] = "fetch"]
        /\ UNCHANGED <<cacheVars, clock, poisoned, nticks, probe>>

\* the print commented out at line 136 restored: a hit prints a line too
stock_hit_logged(p) ==
    /\ pc[p] = "hit"
    /\ fn[p] = "stock"
    /\ ret' = [ret EXCEPT ![p] = entry[p].data]
    /\ nlog' = [nlog EXCEPT ![p] = @ + 1]
    /\ Return(p)
    /\ UNCHANGED <<cacheVars, clock, nfetch, poisoned, ncalls, nticks, probe>>

\* line 137: return entry['data']
stock_hit(p) ==
    /\ pc[p] = "hit"
    /\ fn[p] = "stock"
    /\ ret' = [ret EXCEPT ![p] = entry[p].data]
    /\ Return(p)
    /\ UNCHANGED <<cacheVars, clock, nfetch, nlog, poisoned, ncalls, nticks, probe>>

\* the store is rebuilt around the fetched entry: every other key is dropped
stock_fetch_flush(p, v) ==
    /\ pc[p] = "fetch"
    /\ fn[p] = "stock"
    /\ nfetch' = [nfetch EXCEPT ![p] = @ + 1]
    /\ STOCK_CACHE' = put(EmptyCache, key[p], v, now[p])
    /\ ret' = [ret EXCEPT ![p] = v]
    /\ poisoned' = [poisoned EXCEPT !["stock"] = {x \in @ : x[1] # key[p]}]
    /\ Return(p)
    /\ UNCHANGED <<FUND_CACHE, clock, nlog, ncalls, nticks, probe>>

\* the fetched value is stored with no time of storage (stamped with the epoch)
stock_fetch_unstamped(p, v) ==
    /\ pc[p] = "fetch"
    /\ fn[p] = "stock"
    /\ nfetch' = [nfetch EXCEPT ![p] = @ + 1]
    /\ STOCK_CACHE' = put(STOCK_CACHE, key[p], v, 0)
    /\ ret' = [ret EXCEPT ![p] = v]
    /\ poisoned' = [poisoned EXCEPT !["stock"] = {x \in @ : x[1] # key[p]}]
    /\ Return(p)
    /\ UNCHANGED <<FUND_CACHE, clock, nlog, ncalls, nticks, probe>>

\* the fetched value goes to the other store
stock_fetch_wrong_store(p, v) ==
    /\ pc[p] = "fetch"
    /\ fn[p] = "stock"
    /\ nfetch' = [nfetch EXCEPT ![p] = @ + 1]
    /\ FUND_CACHE' = put(FUND_CACHE, key[p], v, now[p])
    /\ ret' = [ret EXCEPT ![p] = v]
    /\ poisoned' = [poisoned EXCEPT !["stock"] = {x \in @ : x[1] # key[p]}]
    /\ Return(p)
    /\ UNCHANGED <<STOCK_CACHE, clock, nlog, ncalls, nticks, probe>>

\* the fetched value is stored only when no other call has stored the key since
\* this call looked it up (first write wins)
stock_fetch_first_write_wins(p, v) ==
    /\ pc[p] = "fetch"
    /\ fn[p] = "stock"
    /\ nfetch' = [nfetch EXCEPT ![p] = @ + 1]
    /\ STOCK_CACHE' = IF unchanged_since_check(STOCK_CACHE, p)
                      THEN put(STOCK_CACHE, key[p], v, now[p])
                      ELSE STOCK_CACHE
    /\ ret' = [ret EXCEPT ![p] = v]
    /\ poisoned' = [poisoned EXCEPT !["stock"] = {x \in @ : x[1] # key[p]}]
    /\ Return(p)
    /\ UNCHANGED <<FUND_CACHE, clock, nlog, ncalls, nticks, probe>>

\* lines 141-143: fetch_func() returns v, which is stored under the key with the
\* timestamp read at the start of the call, and returned
stock_fetch(p, v) ==
    /\ pc[p] = "fetch"
    /\ fn[p] = "stock"
    /\ nfetch' = [nfetch EXCEPT ![p] = @ + 1]
    /\ STOCK_CACHE' = put(STOCK_CACHE, key[p], v, now[p])
    /\ ret' = [ret EXCEPT ![p] = v]
    /\ poisoned' = [poisoned EXCEPT !["stock"] = {x \in @ : x[1] # key[p]}]
    /\ Return(p)
    /\ UNCHANGED <<FUND_CACHE, clock, nlog, ncalls, nticks, probe>>

\* a failed refetch that falls back to the stale entry's data
stock_fetch_raise_fallback(p) ==
    /\ pc[p] = "fetch"
    /\ fn[p] = "stock"
    /\ nfetch' = [nfetch EXCEPT ![p] = @ + 1]
    /\ ret' = [ret EXCEPT ![p] = IF entry[p] # NoEntry THEN entry[p].data ELSE Raised]
    /\ poisoned' = IF unchanged_since_check(STOCK_CACHE, p)
                   THEN [poisoned EXCEPT !["stock"] = @ \cup {<<key[p], ttl_seconds[p]>>}]
                   ELSE poisoned
    /\ Return(p)
    /\ UNCHANGED <<cacheVars, clock, nlog, ncalls, nticks, probe>>

\* line 141: fetch_func() raises; the exception leaves the function, nothing below runs
stock_fetch_raise(p) ==
    /\ pc[p] = "fetch"
    /\ fn[p] = "stock"
    /\ nfetch' = [nfetch EXCEPT ![p] = @ + 1]
    /\ ret' = [ret EXCEPT ![p] = Raised]
    /\ poisoned' = IF unchanged_since_check(STOCK_CACHE, p)
                   THEN [poisoned EXCEPT !["stock"] = @ \cup {<<key[p], ttl_seconds[p]>>}]
                   ELSE poisoned
    /\ Return(p)
    /\ UNCHANGED <<cacheVars, clock, nlog, ncalls, nticks, probe>>

-----------------------------------------------------------------------------
\* the wall clock moves on
Tick(d) ==
    /\ nticks < MaxTicks
    /\ nticks' = nticks + 1
    /\ clock' = clock + d
    /\ UNCHANGED <<cacheVars, pc, localVars, poisoned, ncalls, probe>>

Next ==
    \/ \E p \in Procs, k \in Keys : fund_begin(p, k)
    \/ \E p \in Procs : fund_hit(p)
    \/ \E p \in Procs, v \in Values : fund_fetch(p, v)
    \/ \E p \in Procs : fund_fetch_raise(p)
    \/ \E p \in Procs, k \in Keys, t \in StockTTLs : stock_begin(p, k, t)
    \/ \E p \in Procs : stock_hit(p)
    \/ \E p \in Procs, v \in Values : stock_fetch(p, v)
    \/ \E p \in Procs : stock_fetch_raise(p)
    \/ \E d \in Deltas : Tick(d)

Spec == Init /\ [][Next]_vars

-----------------------------------------------------------------------------
(* The fund policy at chosen instants of the week.  The clock stands still; the *)
(* instant it shows is kept, as (day, hour, minute, second), in probe.          *)

PolicyDays == 0 .. 6
PolicyHours == {9, 10, 11, 14, 15, 16}
PolicyMinutes == {<<0, 0>>, <<59, 59>>}

InitPolicy ==
    /\ \E d \in PolicyDays, h \in PolicyHours, ms \in PolicyMinutes :
          /\ clock = At(d, h, ms[1], ms[2])
          /\ probe = [kind |-> "policy", day |-> d, hour |-> h,
                      minute |-> ms[1], second |-> ms[2]]
    /\ InitState

NextPolicy ==
    \/ \E p \in Procs, k \in Keys : fund_begin(p, k)
    \/ \E p \in Procs : fund_hit(p)
    \/ \E p \in Procs, v \in Values : fund_fetch(p, v)
    \/ \E p \in Procs : fund_fetch_raise(p)

SpecPolicy == InitPolicy /\ [][NextPolicy]_vars

-----------------------------------------------------------------------------
(* Cache keys of the routes, main.py:192-421.  A query is the route and the     *)
(* strings the client put in the path and the query string.                     *)

\* strings a client may send as symbol, code, name, q, period, interval
ClientStrings == {"A", "B", "FX_A", "A_DETAIL", "A_HIST_B", "B_HIST_B"}
\* the documented values of `type` (main.py:245)
FinTypes == {"balance", "income"}

Query(r, x, y, z) == [route |-> r, a |-> x, b |-> y, c |-> z]

Queries ==
    {Query("stock_list", "", "", "")}
    \cup {Query(r, x, "", "") : r \in {"stock_detail", "fx", "index", "bond", "analysis",
                                       "search", "fund_detail", "fund_history"},
                               x \in ClientStrings}
    \cup {Query("stock_history", x, y, "B") : x \in ClientStrings, y \in ClientStrings}
    \cup {Query("stock_financials", x, y, "") : x \in ClientStrings, y \in FinTypes}

\* the store a route caches in: get_cached_fund_data (main.py:278, 293) or
\* get_cached_stock_data (all other routes)
store_of(q) == IF q.route \in {"fund_detail", "fund_history"} THEN "fund" ELSE "stock"

\* the first argument each route passes to its get-or-fetch function
cache_key(q) ==
    CASE q.route = "stock_list" -> "ALL_STOCKS_LIST"
      [] q.route = "stock_detail" -> q.a \o "_DETAIL"
      [] q.route = "stock_history" -> q.a \o "_HIST_" \o q.b \o "_" \o q.c
      [] q.route = "stock_financials" -> q.a \o "_FIN_" \o q.b
      [] q.route = "fund_detail" -> q.a \o "_DETAIL"
      [] q.route = "fund_history" -> q.a \o "_HIST"
      [] q.route = "fx" -> "FX_" \o q.a
      [] q.route = "index" -> "IDX_" \o q.a
      [] q.route = "bond" -> "BOND_" \o q.a
      [] q.route = "analysis" -> "ANALYSIS_" \o q.a
      [] q.route = "search" -> "SEARCH_" \o q.a

InitKeys ==
    /\ clock \in StartTimes
    /\ \E q1 \in Queries, q2 \in Queries :
          probe = [kind |-> "keys", built |-> FALSE, q1 |-> q1, q2 |-> q2,
                   k1 |-> "", k2 |-> ""]
    /\ InitState

\* two requests arrive and each route builds its cache key
BuildKeys ==
    /\ probe.kind = "keys"
    /\ ~probe.built
    /\ probe' = [probe EXCEPT !.built = TRUE,
                              !.k1 = cache_key(probe.q1),
                              !.k2 = cache_key(probe.q2)]
    /\ UNCHANGED <<cacheVars, clock, pc, localVars, poisoned, ncalls, nticks>>

NextKeys == BuildKeys

SpecKeys == InitKeys /\ [][NextKeys]_vars

-----------------------------------------------------------------------------
(* Equivalent queries: the identifier a fetch closure resolves a query to, next *)
(* to the cache key built for it (main.py:206-222, 268-280; canlidoviz.py       *)
(* get_history, 448-544).                                                       *)

\* identifiers as clients spell them
CaseSymbols == {"THYAO", "thyao", "Thyao", "AKBNK"}
CaseAssets == {"USD", "usd", "EUR", "gram-altin"}
\* None, canlidoviz slugs, a dovizcom slug, an unknown bank
CaseInstitutions == {"None", "akbank", "kuveyt-turk", "kuveytturk", "nobank"}

\* str.upper() on the identifiers above
str_upper(s) ==
    CASE s = "thyao" -> "THYAO"
      [] s = "Thyao" -> "THYAO"
      [] s = "usd" -> "USD"
      [] s = "gram-altin" -> "GRAM-ALTIN"
      [] s = "akbank" -> "AKBANK"
      [] s = "kuveyt-turk" -> "KUVEYT-TURK"
      [] s = "kuveytturk" -> "KUVEYTTURK"
      [] s = "nobank" -> "NOBANK"
      [] s = "xu030" -> "XU030"
      [] s = "us900123dg28" -> "US900123DG28"
      [] s = "akbnk" -> "AKBNK"
      [] OTHER -> s

\* canlidoviz.py:32-136, the rows used here
CURRENCY_IDS == ("USD" :> 1) @@ ("EUR" :> 50)
METAL_IDS == ("gram-altin" :> 32)
\* canlidoviz.py:138-178
BANK_USD_IDS == ("akbank" :> 822) @@ ("kuveyt-turk" :> 1021)
BANK_EUR_IDS == ("akbank" :> 1341)
\* canlidoviz.py:327-350 (gram-altin rates of the banks)
BANK_GRAM_ALTIN_IDS == ("akbank" :> 823)
\* canlidoviz.py:312, reverse of BANK_SLUG_MAP
DOVIZCOM_TO_CANLIDOVIZ == ("akbank" :> "akbank") @@ ("kuveytturk" :> "kuveyt-turk")

NoId == 0
\* dict.get(k) with None as 0
dict_get(d, k) == IF k \in DOMAIN d THEN d[k] ELSE NoId

\* CanlidovizProvider._get_item_id, canlidoviz.py:386-446
get_item_id(asset, institution) ==
    LET asset_upper == str_upper(asset)
        inst_slug == IF institution \in DOMAIN DOVIZCOM_TO_CANLIDOVIZ
                     THEN DOVIZCOM_TO_CANLIDOVIZ[institution] ELSE institution
    IN  IF institution # "None"
        THEN CASE asset_upper = "USD" -> dict_get(BANK_USD_IDS, inst_slug)
               [] asset_upper = "EUR" -> dict_get(BANK_EUR_IDS, inst_slug)
               [] asset = "gram-altin" -> dict_get(BANK_GRAM_ALTIN_IDS, inst_slug)
               [] OTHER -> NoId
        ELSE CASE asset_upper \in DOMAIN CURRENCY_IDS -> CURRENCY_IDS[asset_upper]
               [] asset \in DOMAIN METAL_IDS -> METAL_IDS[asset]
               [] OTHER -> NoId

CanonQueries ==
    {Query(r, x, "", "") : r \in {"stock_detail", "fund_detail"}, x \in CaseSymbols}
    \cup {Query("fx_history", x, y, "") : x \in CaseAssets, y \in CaseInstitutions}

\* what the fetch closure asks the upstream for: the upper-cased symbol or code
\* (main.py:216, 275), the canlidoviz item id (canlidoviz.py:473, 508)
resolved(q) ==
    CASE q.route = "stock_detail" -> <<"stock", str_upper(q.a)>>
      [] q.route = "fund_detail" -> <<"fund", str_upper(q.a)>>
      [] q.route = "fx_history" -> <<"item", get_item_id(q.a, q.b)>>

\* the key each of them caches under (main.py:220, 278; canlidoviz.py:499, the
\* two dates being those of one and the same day's default period)
canon_key(q) ==
    CASE q.route = "stock_detail" -> q.a \o "_DETAIL"
      [] q.route = "fund_detail" -> q.a \o "_DETAIL"
      [] q.route = "fx_history" ->
            "canlidoviz:history:" \o q.a \o ":" \o q.b \o ":D0:D1"

InitCanon ==
    /\ clock \in StartTimes
    /\ \E q1 \in CanonQueries, q2 \in CanonQueries :
          probe = [kind |-> "canon", built |-> FALSE, q1 |-> q1, q2 |-> q2,
                   k1 |-> "", k2 |-> "", r1 |-> <<>>, r2 |-> <<>>]
    /\ InitState

\* two requests arrive; each builds its key and resolves its identifier
BuildCanon ==
    /\ probe.kind = "canon"
    /\ ~probe.built
    /\ probe' = [probe EXCEPT !.built = TRUE,
                              !.k1 = canon_key(probe.q1),
                              !.k2 = canon_key(probe.q2),
                              !.r1 = resolved(probe.q1),
                              !.r2 = resolved(probe.q2)]
    /\ UNCHANGED <<cacheVars, clock, pc, localVars, poisoned, ncalls, nticks>>

NextCanon == BuildCanon

SpecCanon == InitCanon /\ [][NextCanon]_vars

-----------------------------------------------------------------------------
(* Routes whose fetch closure can find that the upstream has no data:           *)
(* /analysis/{symbol} (main.py:375-412), /funds/{code}/history (282-295) and    *)
(* /stocks/{symbol}/financials (244-264).  The keys "a" and "b" stand for the   *)
(* route's key of two symbols.                                                  *)

\* {"error": "No data for analysis"}, {"error": "History not available ..."}
ErrorPayload == "error"
ANALYSIS_TTL == 120
FIN_TTL == 86400
\* what the upstream gives the closure: rows, nothing, or an exception
Upstreams == {"rows", "empty", "raise"}

InitRoutes ==
    /\ clock \in StartTimes
    /\ probe = [kind |-> "routes"]
    /\ InitState

\* line 409: get_cached_stock_data(f"ANALYSIS_{symbol}", fetch, ttl_seconds=120)
get_analysis(p, k) == stock_begin(p, k, ANALYSIS_TTL)

\* lines 380-407, the closure: an empty history makes it return the error dict
get_analysis_fetch(p, up) ==
    /\ ttl_seconds[p] = ANALYSIS_TTL
    /\ CASE up = "rows" -> stock_fetch(p, "V1")
         [] up = "empty" -> stock_fetch(p, ErrorPayload)
         [] up = "raise" -> stock_fetch_raise(p)

\* line 262: get_cached_stock_data(cache_key, fetch, ttl_seconds=86400)
get_stock_financials(p, k) == stock_begin(p, k, FIN_TTL)

\* lines 251-260, the closure: df stays None when the statement lookup yields
\* None, and df_to_json(None) is None (lines 149-150)
get_stock_financials_fetch(p, up) ==
    /\ ttl_seconds[p] = FIN_TTL
    /\ CASE up = "rows" -> stock_fetch(p, "V1")
         [] up = "empty" -> stock_fetch(p, "None")
         [] up = "raise" -> stock_fetch_raise(p)

\* line 293: get_cached_fund_data(f"{code}_HIST", fetch)
get_fund_history(p, k) == fund_begin(p, k)

\* lines 286-290, the closure: a fund without history makes it return the error dict
get_fund_history_fetch(p, up) ==
    CASE up = "rows" -> fund_fetch(p, "V1")
      [] up = "empty" -> fund_fetch(p, ErrorPayload)
      [] up = "raise" -> fund_fetch_raise(p)

NextRoutes ==
    \/ \E p \in Procs, k \in Keys : get_analysis(p, k)
    \/ \E p \in Procs, up \in Upstreams : get_analysis_fetch(p, up)
    \/ \E p \in Procs, k \in Keys : get_stock_financials(p, k)
    \/ \E p \in Procs, up \in Upstreams : get_stock_financials_fetch(p, up)
    \/ \E p \in Procs, k \in Keys : get_fund_history(p, k)
    \/ \E p \in Procs, up \in Upstreams : get_fund_history_fetch(p, up)
    \/ \E p \in Procs : stock_hit(p)
    \/ \E p \in Procs : fund_hit(p)
    \/ \E d \in Deltas : Tick(d)

SpecRoutes == InitRoutes /\ [][NextRoutes]_vars

-----------------------------------------------------------------------------
(* Provider pull operations with a cold provider cache: CanlidovizProvider      *)
(* (canlidoviz.py:448-687) and TCMBRatesProvider (tcmb_rates.py:64-212).  An    *)
(* operation's outcome is its return value or the exception that leaves it.     *)

\* canlidoviz.py:315-323, the rows used here
CURRENCY_SLUGS == ("USD" :> "dolar") @@ ("EUR" :> "euro")
\* the banks listed on a well-formed bank-rates page
PageBanks == {"akbank", "kuveyt-turk"}

\* what the canlidoviz upstream answers: a well-formed payload, an HTTP error
\* status, a body that is not JSON (or a page without bank links), a JSON body
\* none of whose records parses
CvUpstreams == {"ok", "http_error", "bad_payload", "bad_records"}

Returned(v) == [kind |-> "return", value |-> v]
Thrown(e) == [kind |-> "raise", value |-> e]

\* CanlidovizProvider.get_history, canlidoviz.py:473-544
cv_get_history(asset, institution, up) ==
    IF get_item_id(asset, institution) = NoId
    THEN Thrown("DataNotAvailableError")                  \* lines 474-479
    ELSE CASE up = "http_error" -> Thrown("APIError")     \* 514, 543-544
           [] up = "bad_payload" -> Thrown("APIError")    \* 515, 543-544
           [] up = "bad_records" -> Returned("empty")     \* 532-533, 535
           [] up = "ok" -> Returned("records")

\* CanlidovizProvider.get_current, canlidoviz.py:559-595
cv_get_current(asset, institution, up) ==
    IF get_item_id(asset, institution) = NoId
    THEN Thrown("DataNotAvailableError")                  \* lines 560-561
    ELSE LET df == cv_get_history(asset, institution, up)
         IN  CASE df.kind = "raise" -> Thrown("APIError")       \* 570, 594-595
               [] df = Returned("empty") -> Thrown("APIError")  \* 572-573, 594-595
               [] OTHER -> Returned("records")

\* CanlidovizProvider.get_bank_rates, canlidoviz.py:657-687
cv_get_bank_rates(currency_arg, bank, up) ==
    LET currency == str_upper(currency_arg)
        rows == IF up = "ok" THEN PageBanks ELSE {}      \* _parse_bank_rates_html
        bank_slug == IF bank \in DOMAIN DOVIZCOM_TO_CANLIDOVIZ
                     THEN DOVIZCOM_TO_CANLIDOVIZ[bank] ELSE bank
    IN  CASE currency \notin DOMAIN CURRENCY_SLUGS -> Thrown("DataNotAvailableError")
          [] up = "http_error" -> Thrown("APIError")      \* 672, 676-677
          [] bank # "None" ->                             \* 679-685
                IF bank_slug \in rows THEN Returned("records")
                ELSE Thrown("DataNotAvailableError")
          [] OTHER -> Returned(IF rows = {} THEN "empty" ELSE "records")

(* TCMBRatesProvider *)

\* tcmb_rates.py:17-21
TCMB_URLS == {"policy", "overnight", "late_liquidity"}
RateTypes == {"policy", "overnight", "weekly"}

\* dates as day numbers; NoDate is what _parse_date gives for text it cannot parse
NoDate == 0
\* the None rate of the record returned when there is no data
NoRate == -1
MaxDate == 3
MaxRows == 3
\* a table row after the header: its number of <td> cells, its parsed date, its
\* parsed lending rate
TableRows ==
    {[cols |-> 2, date |-> 1, lending |-> 10]}
    \cup {[cols |-> 3, date |-> d, lending |-> 10 * d] : d \in NoDate .. MaxDate}
\* the page at a TCMB URL: without a <table>, or with these rows in this order
NoTable == <<[cols |-> 0, date |-> NoDate, lending |-> 0]>>
Pages == {NoTable} \cup UNION {[1 .. n -> TableRows] : n \in 0 .. MaxRows}

\* tcmb_rates.py:87-102: rows with fewer than 3 cells or without a date are
\* skipped, the others are appended in page order
RECURSIVE parse_rows(_)
parse_rows(rows) ==
    IF rows = <<>> THEN <<>>
    ELSE LET row == Head(rows)
             rest == parse_rows(Tail(rows))
         IN  IF row.cols < 3 \/ row.date = NoDate
             THEN rest
             ELSE <<[date |-> row.date, lending |-> row.lending]>> \o rest

\* TCMBRatesProvider._fetch_and_parse_table, tcmb_rates.py:73-106
fetch_and_parse_table(page) ==
    IF page = NoTable THEN <<>>              \* lines 79-81
    ELSE parse_rows(page)                    \* lines 87-106

\* TCMBRatesProvider.get_rate_history, tcmb_rates.py:209-212
get_rate_history(rate_type, page) ==
    IF rate_type \notin TCMB_URLS
    THEN Thrown("ValueError")
    ELSE Returned(fetch_and_parse_table(page))

\* TCMBRatesProvider.get_policy_rate, tcmb_rates.py:117-126
get_policy_rate(page) ==
    LET data == fetch_and_parse_table(page)
    IN  IF data = <<>>
        THEN Returned([date |-> NoDate, lending |-> NoRate])
        ELSE Returned([date |-> data[1].date, lending |-> data[1].lending])

ProviderCalls ==
    {[op |-> o, a |-> x, b |-> y, up |-> u] :
        o \in {"cv_get_history", "cv_get_current", "cv_get_bank_rates"},
        x \in CaseAssets, y \in CaseInstitutions, u \in CvUpstreams}
    \cup {[op |-> "get_rate_history", a |-> x, b |-> "", up |-> pg] :
            x \in RateTypes, pg \in Pages}
    \cup {[op |-> "get_policy_rate", a |-> "", b |-> "", up |-> pg] : pg \in Pages}

InitProviders ==
    /\ clock \in StartTimes
    /\ \E c \in ProviderCalls :
          probe = [kind |-> "providers", call |-> c, done |-> FALSE,
                   result |-> Returned("")]
    /\ InitState

\* the caller pulls from the Canlidoviz provider
PullCanlidoviz ==
    /\ probe.kind = "providers"
    /\ ~probe.done
    /\ probe.call.op \in {"cv_get_history", "cv_get_current", "cv_get_bank_rates"}
    /\ LET c == probe.call
       IN  probe' = [probe EXCEPT
              !.done = TRUE,
              !.result = CASE c.op = "cv_get_history" -> cv_get_history(c.a, c.b, c.up)
                           [] c.op = "cv_get_current" -> cv_get_current(c.a, c.b, c.up)
                           [] c.op = "cv_get_bank_rates" -> cv_get_bank_rates(c.a, c.b, c.up)]
    /\ UNCHANGED <<cacheVars, clock, pc, localVars, poisoned, ncalls, nticks>>

\* the caller pulls from the TCMB rates provider
PullTcmb ==
    /\ probe.kind = "providers"
    /\ ~probe.done
    /\ probe.call.op \in {"get_rate_history", "get_policy_rate"}
    /\ LET c == probe.call
       IN  probe' = [probe EXCEPT
              !.done = TRUE,
              !.result = CASE c.op = "get_rate_history" -> get_rate_history(c.a, c.up)
                           [] c.op = "get_policy_rate" -> get_policy_rate(c.up)]
    /\ UNCHANGED <<cacheVars, clock, pc, localVars, poisoned, ncalls, nticks>>

NextProviders == PullCanlidoviz \/ PullTcmb

SpecProviders == InitProviders /\ [][NextProviders]_vars

-----------------------------------------------------------------------------
(* BistIndexProvider, bist_index.py:26-150: the components dataset kept in      *)
(* self._df_cache and in the provider cache, and the four lookups on it.        *)

MaxDownloads == 3

\* self._df_cache is None / the cache has no entry
NoDf == [loaded |-> FALSE, rows |-> <<>>]
\* the rows of hisse_endeks_ds.csv after lines 49-54
ComponentsCsv ==
    [loaded |-> TRUE,
     rows |-> <<[index_code |-> "XU030", symbol |-> "AKBNK"],
                [index_code |-> "XU100", symbol |-> "AKBNK"],
                [index_code |-> "XU100", symbol |-> "THYAO"]>>]
\* what a download attempt meets: the CSV, a failed request, a body that is not
\* the expected CSV
BistUpstreams == {"ok", "http_error", "parse_error"}
IndexSymbols == {"XU030", "xu030", "XU100", "XU999"}
Tickers == {"AKBNK", "akbnk", "THYAO", "ZZZZZ"}

InitBist ==
    /\ clock \in StartTimes
    /\ probe = [kind |-> "bist", df_cache |-> NoDf, mem |-> NoDf, ndown |-> 0,
                op |-> "", a |-> "", b |-> "", out |-> {}, raised |-> FALSE,
                attempted |-> FALSE, failed |-> FALSE]
    /\ InitState

\* _download_components without the try/except of lines 45 and 59-60
download_components_unguarded(st, up) ==
    CASE st.df_cache.loaded ->
            [df |-> st.df_cache, df_cache |-> st.df_cache, mem |-> st.mem,
             attempted |-> FALSE, raised |-> FALSE]
      [] ~st.df_cache.loaded /\ st.mem.loaded ->
            [df |-> st.mem, df_cache |-> st.mem, mem |-> st.mem,
             attempted |-> FALSE, raised |-> FALSE]
      [] OTHER ->
            IF up = "ok"
            THEN [df |-> ComponentsCsv, df_cache |-> ComponentsCsv,
                  mem |-> ComponentsCsv, attempted |-> TRUE, raised |-> FALSE]
            ELSE [df |-> NoDf, df_cache |-> st.df_cache, mem |-> st.mem,
                  attempted |-> TRUE, raised |-> TRUE]

\* _download_components asking the provider cache before self._df_cache: when the
\* cache entry has run out the CSV is downloaded again
download_components_mem_first(st, up) ==
    CASE st.mem.loaded ->
            [df |-> st.mem, df_cache |-> st.mem, mem |-> st.mem,
             attempted |-> FALSE, raised |-> FALSE]
      [] OTHER ->
            IF up = "ok"
            THEN [df |-> ComponentsCsv, df_cache |-> ComponentsCsv,
                  mem |-> ComponentsCsv, attempted |-> TRUE, raised |-> FALSE]
            ELSE [df |-> st.df_cache, df_cache |-> st.df_cache, mem |-> st.mem,
                  attempted |-> TRUE, raised |-> FALSE]

\* BistIndexProvider._download_components, bist_index.py:33-60: the dataset the
\* lookup works on (NoDf for None), and the two caches afterwards
download_components(st, up) ==
    CASE st.df_cache.loaded ->                               \* lines 35-36
            [df |-> st.df_cache, df_cache |-> st.df_cache, mem |-> st.mem,
             attempted |-> FALSE, raised |-> FALSE]
      [] ~st.df_cache.loaded /\ st.mem.loaded ->             \* lines 39-43
            [df |-> st.mem, df_cache |-> st.mem, mem |-> st.mem,
             attempted |-> FALSE, raised |-> FALSE]
      [] OTHER ->
            IF up = "ok"
            THEN [df |-> ComponentsCsv, df_cache |-> ComponentsCsv,    \* 46-58
                  mem |-> ComponentsCsv, attempted |-> TRUE, raised |-> FALSE]
            ELSE [df |-> NoDf, df_cache |-> st.df_cache, mem |-> st.mem, \* 59-60
                  attempted |-> TRUE, raised |-> FALSE]

\* a download would be attempted and the bound on attempts allows one more
may_call(st) == (st.df_cache.loaded \/ st.mem.loaded) \/ st.ndown < MaxDownloads

\* the state after a lookup that used download result d and returned `result`
after_lookup(st, d, name, x, y, result) ==
    [st EXCEPT !.df_cache = d.df_cache, !.mem = d.mem,
               !.ndown = IF d.attempted THEN @ + 1 ELSE @,
               !.op = name, !.a = x, !.b = y,
               !.out = IF d.raised THEN {} ELSE result,
               !.raised = d.raised,
               !.attempted = d.attempted,
               !.failed = d.attempted /\ ~d.df.loaded]

RowsOf(df) == {df.rows[i] : i \in 1 .. Len(df.rows)}

\* lines 85-86: the rows of the index, in dataset order
components_of(df, symbol) ==
    LET hit(row) == row.index_code = symbol
        picked == SelectSeq(df.rows, hit)
    IN  [i \in 1 .. Len(picked) |-> picked[i].symbol]

\* BistIndexProvider.get_components, bist_index.py:78-88
get_components(symbol_arg, up) ==
    LET symbol == str_upper(symbol_arg)
        d == download_components(probe, up)
    IN  /\ probe.kind = "bist"
        /\ may_call(probe)
        /\ probe' = after_lookup(probe, d, "get_components", symbol_arg, "",
                        IF ~d.df.loaded THEN <<>> ELSE components_of(d.df, symbol))
        /\ UNCHANGED <<cacheVars, clock, pc, localVars, poisoned, ncalls, nticks>>

\* BistIndexProvider.get_available_indices, bist_index.py:97-108 (the list as the
\* set of its (symbol, count) pairs)
get_available_indices(up) ==
    LET d == download_components(probe, up)
        codes == {row.index_code : row \in RowsOf(d.df)}
        count(c) == Cardinality({i \in 1 .. Len(d.df.rows) : d.df.rows[i].index_code = c})
    IN  /\ probe.kind = "bist"
        /\ may_call(probe)
        /\ probe' = after_lookup(probe, d, "get_available_indices", "", "",
                        IF ~d.df.loaded THEN {} ELSE {<<c, count(c)>> : c \in codes})
        /\ UNCHANGED <<cacheVars, clock, pc, localVars, poisoned, ncalls, nticks>>

\* BistIndexProvider.is_in_index, bist_index.py:121-129
is_in_index(ticker_arg, index_arg, up) ==
    LET ticker == str_upper(ticker_arg)
        index_symbol == str_upper(index_arg)
        d == download_components(probe, up)
    IN  /\ probe.kind = "bist"
        /\ may_call(probe)
        /\ probe' = after_lookup(probe, d, "is_in_index", ticker_arg, index_arg,
                        IF ~d.df.loaded THEN FALSE
                        ELSE \E row \in RowsOf(d.df) :
                                row.symbol = ticker /\ row.index_code = index_symbol)
        /\ UNCHANGED <<cacheVars, clock, pc, localVars, poisoned, ncalls, nticks>>

\* BistIndexProvider.get_indices_for_ticker, bist_index.py:141-150 (the sorted
\* list as the set of its elements)
get_indices_for_ticker(ticker_arg, up) ==
    LET ticker == str_upper(ticker_arg)
        d == download_components(probe, up)
    IN  /\ probe.kind = "bist"
        /\ may_call(probe)
        /\ probe' = after_lookup(probe, d, "get_indices_for_ticker", ticker_arg, "",
                        IF ~d.df.loaded THEN {}
                        ELSE {row.index_code : row \in {r \in RowsOf(d.df) : r.symbol = ticker}})
        /\ UNCHANGED <<cacheVars, clock, pc, localVars, poisoned, ncalls, nticks>>

\* the provider cache drops the dataset when its TTL has run out; self._df_cache
\* is untouched
cache_expire ==
    /\ probe.kind = "bist"
    /\ probe.mem.loaded
    /\ probe' = [probe EXCEPT !.mem = NoDf, !.op = "expire", !.a = "", !.b = "",
                              !.out = {}, !.raised = FALSE,
                              !.attempted = FALSE, !.failed = FALSE]
    /\ UNCHANGED <<cacheVars, clock, pc, localVars, poisoned, ncalls, nticks>>

NextBist ==
    \/ \E x \in IndexSymbols, up \in BistUpstreams : get_components(x, up)
    \/ \E up \in BistUpstreams : get_available_indices(up)
    \/ \E t \in Tickers, x \in IndexSymbols, up \in BistUpstreams : is_in_index(t, x, up)
    \/ \E t \in Tickers, up \in BistUpstreams : get_indices_for_ticker(t, up)
    \/ cache_expire

SpecBist == InitBist /\ [][NextBist]_vars

-----------------------------------------------------------------------------
(* One Eurobond instance, eurobond.py:32-133: construction, and property reads  *)
(* through the lazily loaded _data.                                             *)

MaxLookups == 3

Isins == {"US900123DG28", "us900123dg28", "XS0000000000"}
\* the bonds the provider's list may hold
BondLists == {{}, {"US900123DG28"}}
\* the properties read through self._data (lines 79-127)
Properties == {"isin", "maturity", "currency", "bid_yield", "info"}
\* self._data_cache is None
NoBond == ""

\* provider.get_eurobond(isin): the bond's dict (named by its ISIN) or None
get_eurobond(bonds, isin) == IF isin \in bonds THEN isin ELSE NoBond

InitEurobond ==
    /\ clock \in StartTimes
    /\ \E arg \in Isins, bonds \in BondLists :
          probe = [kind |-> "eurobond", arg |-> arg, bonds |-> bonds,
                   constructed |-> FALSE, isin |-> "", data_cache |-> NoBond,
                   nlookups |-> 0, op |-> "", out |-> Returned("")]
    /\ InitState

\* Eurobond.__init__, eurobond.py:57-68
Eurobond_init ==
    /\ probe.kind = "eurobond"
    /\ ~probe.constructed
    /\ probe' = [probe EXCEPT !.constructed = TRUE,
                              !.isin = str_upper(probe.arg),
                              !.data_cache = NoBond,
                              !.op = "__init__",
                              !.out = Returned("Eurobond")]
    /\ UNCHANGED <<cacheVars, clock, pc, localVars, poisoned, ncalls, nticks>>

\* a property read that asks the provider every time (no `is None` test)
read_property_uncached(name) ==
    /\ probe.kind = "eurobond"
    /\ probe.constructed
    /\ probe.nlookups < MaxLookups
    /\ LET data == get_eurobond(probe.bonds, probe.isin)
       IN  probe' = [probe EXCEPT
                        !.data_cache = data,
                        !.nlookups = @ + 1,
                        !.op = name,
                        !.out = IF data = NoBond
                                THEN Thrown("DataNotAvailableError")
                                ELSE Returned(<<name, data>>)]
    /\ UNCHANGED <<cacheVars, clock, pc, localVars, poisoned, ncalls, nticks>>

\* a property read: Eurobond._data (lines 70-77), then the property's own line
read_property(name) ==
    /\ probe.kind = "eurobond"
    /\ probe.constructed
    /\ IF probe.data_cache # NoBond
       THEN probe' = [probe EXCEPT !.op = name,
                                   !.out = Returned(<<name, probe.data_cache>>)]
       ELSE /\ probe.nlookups < MaxLookups
            /\ LET data == get_eurobond(probe.bonds, probe.isin)
               IN  probe' = [probe EXCEPT
                                !.data_cache = data,
                                !.nlookups = @ + 1,
                                !.op = name,
                                !.out = IF data = NoBond
                                        THEN Thrown("DataNotAvailableError")
                                        ELSE Returned(<<name, data>>)]
    /\ UNCHANGED <<cacheVars, clock, pc, localVars, poisoned, ncalls, nticks>>

NextEurobond ==
    \/ Eurobond_init
    \/ \E name \in Properties : read_property(name)

SpecEurobond == InitEurobond /\ [][NextEurobond]_vars

-----------------------------------------------------------------------------
(* GET /bonds/{name}, main.py:346-361.  The keys "a" and "b" stand for           *)
(* BOND_{name} of two names; probe.eurobonds holds those that the Eurobond      *)
(* provider lists.                                                              *)

BOND_TTL == 14400
\* what Bond(name) followed by b.history() does: gives a frame, or raises
BondOutcomes == {"ok", "raise"}
\* the public attributes of class Eurobond, eurobond.py:79-127
EurobondAttrs == {"isin", "maturity", "days_to_maturity", "currency", "bid_price",
                  "bid_yield", "ask_price", "ask_yield", "info"}

InitBonds ==
    /\ clock \in StartTimes
    /\ \E listed \in SUBSET Keys : probe = [kind |-> "bonds", eurobonds |-> listed]
    /\ InitState

\* line 358: get_cached_stock_data(f"BOND_{name}", fetch, ttl_seconds=14400)
get_bond_detail(p, k) ==
    /\ probe.kind = "bonds"
    /\ stock_begin(p, k, BOND_TTL)

\* lines 350-356, the closure: the Bond result, or, when the Bond lookup raised,
\* Eurobond(name) -- which constructs without a lookup -- and eb.history(), an
\* attribute the class does not have: the AttributeError leaves the closure and
\* get_cached_stock_data, and line 359-360 turns it into the 404
get_bond_detail_fetch(p, bond) ==
    /\ probe.kind = "bonds"
    /\ CASE bond = "ok" -> stock_fetch(p, "Bond")
         [] bond = "raise" /\ "history" \in EurobondAttrs /\ key[p] \in probe.eurobonds
               -> stock_fetch(p, "Eurobond")
         [] OTHER -> stock_fetch_raise(p)

NextBonds ==
    \/ \E p \in Procs, k \in Keys : get_bond_detail(p, k)
    \/ \E p \in Procs, bond \in BondOutcomes : get_bond_detail_fetch(p, bond)
    \/ \E p \in Procs : stock_hit(p)
    \/ \E d \in Deltas : Tick(d)

SpecBonds == InitBonds /\ [][NextBonds]_vars

-----------------------------------------------------------------------------
(* Properties *)

\* the store a function works on
StoreOf(f) == IF f = "fund" THEN FUND_CACHE ELSE STOCK_CACHE

\* thread p takes a step that starts a call
Begins(p) == pc[p] = "idle" /\ pc'[p] # "idle"

\* C1 -- Hit path: when a call finds an entry for its key whose age (now minus the
\* entry's timestamp) is strictly below the TTL in force, it goes to the hit path,
\* hands its caller exactly the data of the entry it found (None included),
\* invokes fetch_func zero times, and no step of the call changes either store.
C1_HitPath ==
    [][\A p \in Procs :
        /\ (/\ Begins(p)
            /\ key'[p] \in DOMAIN StoreOf(fn'[p])
            /\ now'[p] - StoreOf(fn'[p])[key'[p]].timestamp < ttl_seconds'[p])
           => /\ pc'[p] = "hit"
              /\ entry'[p] = StoreOf(fn'[p])[key'[p]]
              /\ nfetch'[p] = 0
              /\ UNCHANGED cacheVars
        /\ (pc[p] = "hit" /\ pc'[p] # "hit")
           => /\ pc'[p] = "idle"
              /\ ret'[p] = entry[p].data
              /\ nfetch'[p] = 0
              /\ UNCHANGED cacheVars]_vars

\* a call was answered from the cache with a stored None, without any fetch
C1_Witness ==
    \E p \in Procs :
        /\ pc[p] = "idle" /\ ncalls > 0
        /\ ret[p] = "None" /\ nfetch[p] = 0
        /\ key[p] \in DOMAIN StoreOf(fn[p])
        /\ StoreOf(fn[p])[key[p]].data = "None"

\* the store a function works on, after the step
StoreOfNext(f) == IF f = "fund" THEN FUND_CACHE' ELSE STOCK_CACHE'

\* thread p takes the step that ends its fetch_func invocation
LeavesFetch(p) == pc[p] = "fetch" /\ pc'[p] # "fetch"

\* C2 -- Miss on an absent key: a call whose key has no entry enters fetch_func;
\* the call ends with exactly one fetch_func invocation made, and when fetch_func
\* returned a value that value is stored under the key and is what the caller gets.
C2_MissOnAbsentKey ==
    [][\A p \in Procs :
        /\ (Begins(p) /\ key'[p] \notin DOMAIN StoreOf(fn'[p]))
           => /\ pc'[p] = "fetch"
              /\ entry'[p] = NoEntry
              /\ nfetch'[p] = 0
        /\ (LeavesFetch(p) /\ entry[p] = NoEntry)
           => /\ pc'[p] = "idle"
              /\ nfetch[p] = 0 /\ nfetch'[p] = 1
              /\ \/ ret'[p] = Raised
                 \/ /\ ret'[p] \in Values
                    /\ key[p] \in DOMAIN StoreOfNext(fn[p])
                    /\ StoreOfNext(fn[p])[key[p]].data = ret'[p]]_vars

\* the only call made so far asked the stock store for "b", which was absent: it
\* fetched once, and what it returned is what the store now holds under "b"
C2_Witness ==
    \E p \in Procs :
        /\ ncalls = 1 /\ pc[p] = "idle"
        /\ fn[p] = "stock" /\ key[p] = "b"
        /\ nfetch[p] = 1 /\ ret[p] = "None"
        /\ "b" \in DOMAIN STOCK_CACHE
        /\ STOCK_CACHE["b"].data = "None"

\* C3 -- Staleness triggers refetch: a call that finds an entry whose age is
\* greater than or equal to the TTL in force (equal counts as stale) enters
\* fetch_func, and when fetch_func returns, the entry is replaced by the fetched
\* value stamped with the call's `now`.
C3_StaleRefetch ==
    [][\A p \in Procs :
        /\ (/\ Begins(p)
            /\ key'[p] \in DOMAIN StoreOf(fn'[p])
            /\ now'[p] - StoreOf(fn'[p])[key'[p]].timestamp >= ttl_seconds'[p])
           => /\ pc'[p] = "fetch"
              /\ entry'[p] = StoreOf(fn'[p])[key'[p]]
        /\ (LeavesFetch(p) /\ entry[p] # NoEntry /\ ret'[p] # Raised)
           => /\ nfetch'[p] = 1
              /\ key[p] \in DOMAIN StoreOfNext(fn[p])
              /\ StoreOfNext(fn[p])[key[p]] = [data |-> ret'[p], timestamp |-> now[p]]]_vars

\* both stores held "a" from the start; the only call made so far asked the stock
\* store for "a" when the entry was exactly 60 s old, refetched and replaced it
C3_Witness ==
    \E p \in Procs :
        /\ ncalls = 1 /\ pc[p] = "idle"
        /\ fn[p] = "stock" /\ key[p] = "a" /\ nfetch[p] = 1
        /\ "a" \in DOMAIN FUND_CACHE /\ "a" \in DOMAIN STOCK_CACHE
        /\ STOCK_CACHE["a"].timestamp - FUND_CACHE["a"].timestamp = 60
        /\ STOCK_CACHE["a"].data = ret[p]

\* C4 -- Idempotence: a thread makes the first call of the run, a miss whose
\* fetch_func returns V, and then calls again with the same function and key.  The
\* key then has an entry; if the second call is made within the TTL window counted
\* from that entry's timestamp it is a hit on an entry holding V, makes no fetch
\* (one invocation across the two calls), and returns the entry's data, V.
C4_Idempotence ==
    [][\A p \in Procs :
        /\ (/\ ncalls = 1 /\ pc[p] = "idle" /\ nfetch[p] = 1 /\ ret[p] \in Values
            /\ Begins(p) /\ fn'[p] = fn[p] /\ key'[p] = key[p])
           => /\ key[p] \in DOMAIN StoreOf(fn[p])
              /\ (now'[p] - StoreOf(fn[p])[key[p]].timestamp < ttl_seconds'[p])
                 => /\ pc'[p] = "hit"
                    /\ entry'[p].data = ret[p]
                    /\ nfetch'[p] = 0
        /\ (ncalls = 2 /\ pc[p] = "hit" /\ pc'[p] # "hit")
           => /\ ret'[p] = entry[p].data
              /\ nfetch'[p] = 0]_vars

\* one thread made both calls of the run: the first fetched None, the second was
\* answered None from the store without a fetch; the other thread never ran
C4_Witness ==
    \E p \in Procs :
        /\ ncalls = 2 /\ pc[p] = "idle"
        /\ ret[p] = "None" /\ nfetch[p] = 0
        /\ StoreOf(fn[p])[key[p]].data = "None"
        /\ \A q \in Procs \ {p} : pc[q] = "idle" /\ ret[q] = NoData /\ nfetch[q] = 0

\* C5 -- Fetch failure leaves the store unchanged: the step in which fetch_func
\* raises hands the failure to the caller, ends the call, and changes no entry of
\* either store (none added, none replaced, no timestamp changed); the step that
\* started the call changed none either.  Holds for an absent and for a stale key.
C5_FailureLeavesStore ==
    [][\A p \in Procs :
        /\ (LeavesFetch(p) /\ ret'[p] = Raised)
           => /\ pc'[p] = "idle"
              /\ FUND_CACHE' = FUND_CACHE
              /\ STOCK_CACHE' = STOCK_CACHE
        /\ Begins(p)
           => /\ FUND_CACHE' = FUND_CACHE
              /\ STOCK_CACHE' = STOCK_CACHE]_vars

\* two calls failed, one on a key that is still absent, one on a key whose stale
\* entry is still there
C5_Witness ==
    \E p, q \in Procs :
        /\ pc[p] = "idle" /\ ret[p] = Raised
        /\ key[p] \notin DOMAIN StoreOf(fn[p])
        /\ pc[q] = "idle" /\ ret[q] = Raised
        /\ key[q] \in DOMAIN StoreOf(fn[q])
        /\ \E x \in poisoned[fn[q]] : x[1] = key[q]

\* C6 -- No stale fallback: a call that found a stale entry and entered fetch_func
\* ends either with the failure handed to the caller, or with a value that this
\* very step stored under the key with the call's own timestamp; the stale
\* entry's data is never what a failed refetch returns.
C6_NoStaleFallback ==
    [][\A p \in Procs :
        (LeavesFetch(p) /\ entry[p] # NoEntry)
           => \/ ret'[p] = Raised
              \/ /\ ret'[p] \in Values
                 /\ now[p] - entry[p].timestamp >= ttl_seconds[p]
                 /\ entry[p].timestamp < now[p]
                 /\ key[p] \in DOMAIN StoreOfNext(fn[p])
                 /\ StoreOfNext(fn[p])[key[p]] = [data |-> ret'[p], timestamp |-> now[p]]]_vars

\* the only call made so far found the stock store's "a" stale, its refetch failed,
\* the caller got the failure, and the stale V1 is still in the store
C6_Witness ==
    \E p \in Procs :
        /\ ncalls = 1 /\ pc[p] = "idle" /\ ret[p] = Raised
        /\ fn[p] = "stock" /\ key[p] = "a"
        /\ "a" \in DOMAIN STOCK_CACHE
        /\ STOCK_CACHE["a"].data = "V1"
        /\ STOCK_CACHE["a"].timestamp < clock

\* C7 (as claimed) -- No poisoned negative cache: once a call for a key has
\* failed (poisoned: the entry it looked up was still the store's when it failed
\* and nothing has been stored under the key since), every later call for that
\* key enters fetch_func, whatever the time of the later call: for the stock
\* store with the same ttl_seconds, for the fund store with whatever TTL is then
\* in force.
C7_NoPoisonedNegativeCache ==
    [][\A p \in Procs :
        (/\ Begins(p)
         /\ \E x \in poisoned[fn'[p]] :
               /\ x[1] = key'[p]
               /\ fn'[p] = "stock" => ttl_seconds'[p] = x[2])
           => pc'[p] = "fetch"]_vars

\* C7 (amended) -- as above, but for the fund store only when the TTL in force at
\* the later call is no larger than the TTL that was in force at the failed call.
C7_NoPoisonedWithinPolicy ==
    [][\A p \in Procs :
        (/\ Begins(p)
         /\ \E x \in poisoned[fn'[p]] :
               /\ x[1] = key'[p]
               /\ fn'[p] = "stock" => ttl_seconds'[p] = x[2]
               /\ fn'[p] = "fund" => ttl_seconds'[p] <= x[2])
           => pc'[p] = "fetch"]_vars

\* a fund call on "a" failed on a stale entry in the hot window; a later call for
\* "a", still in the hot window, is inside fetch_func
C7_Witness ==
    \E p, q \in Procs :
        /\ pc[q] = "idle" /\ ret[q] = Raised /\ fn[q] = "fund" /\ key[q] = "a"
        /\ pc[p] = "fetch" /\ fn[p] = "fund" /\ key[p] = "a"
        /\ entry[p] # NoEntry
        /\ <<"a", ttl_seconds[p]>> \in poisoned["fund"]

maxSize == Cardinality(Keys) - 1

\* C9 -- Capacity bound: the number of entries of a store (STOCK_CACHE,
\* FUND_CACHE) never exceeds the configured maximum maxSize.
C9_CapacityBound ==
    /\ Cardinality(DOMAIN STOCK_CACHE) <= maxSize
    /\ Cardinality(DOMAIN FUND_CACHE) <= maxSize

\* C10 -- Key injectivity: two distinct queries that cache in the same store
\* never get the same cache key.
C10_KeyInjective ==
    (/\ probe.kind = "keys"
     /\ probe.built
     /\ probe.q1 # probe.q2
     /\ store_of(probe.q1) = store_of(probe.q2))
        => probe.k1 # probe.k2

\* two queries of one route that the fetch closure resolves to the same upstream
\* identifier (for the canlidoviz history, a supported one)
equivalent_queries(q1, q2) ==
    /\ q1.route = q2.route
    /\ resolved(q1) = resolved(q2)
    /\ q1.route = "fx_history" => get_item_id(q1.a, q1.b) # NoId

\* C11 -- Key canonicality: two equivalent queries (identifiers that differ only
\* in letter case, a dovizcom bank slug and its canlidoviz alias) always get the
\* same cache key.
C11_KeyCanonical ==
    (/\ probe.kind = "canon"
     /\ probe.built
     /\ equivalent_queries(probe.q1, probe.q2))
        => probe.k1 = probe.k2

\* C12 -- Concurrent misses on one key: whenever a call's fetch_func returns,
\* also while other calls for the same key are in flight, the value the caller
\* gets is the one this step stores under the key, stamped with the call's own
\* `now`; the step leaves alone what the other calls returned or will return, and
\* the stores change in no other kind of step: the entry of a key (one per key) is
\* always that of the call that stored it last.
C12_LastWriteWins ==
    [][/\ \A p \in Procs :
            (LeavesFetch(p) /\ ret'[p] # Raised)
               => /\ ret'[p] \in Values
                  /\ key[p] \in DOMAIN StoreOfNext(fn[p])
                  /\ StoreOfNext(fn[p])[key[p]] = [data |-> ret'[p], timestamp |-> now[p]]
                  /\ \A k \in DOMAIN StoreOf(fn[p]) \ {key[p]} :
                        StoreOfNext(fn[p])[k] = StoreOf(fn[p])[k]
                  /\ \A q \in Procs \ {p} :
                        ret'[q] = ret[q] /\ pc'[q] = pc[q] /\ nfetch'[q] = nfetch[q]
       /\ (cacheVars' # cacheVars)
             => \E p \in Procs : LeavesFetch(p) /\ ret'[p] \in Values]_vars

\* both calls of the run asked the stock store for the absent "b" at the same
\* instant and both fetched (they overlapped: had one ended before the other
\* began, the second would have been a hit); one got V1 and the other None, and
\* the store holds a single entry for "b", with None
C12_Witness ==
    /\ ncalls = 2 /\ nticks = 0
    /\ \A p \in Procs : pc[p] = "idle" /\ fn[p] = "stock" /\ key[p] = "b" /\ nfetch[p] = 1
    /\ ret["p1"] = "V1" /\ ret["p2"] = "None"
    /\ DOMAIN FUND_CACHE = {}
    /\ DOMAIN STOCK_CACHE = {"b"}
    /\ STOCK_CACHE["b"].data = "None"

\* another call of the same function for the same key is inside fetch_func
InFlight(p, f, k) == \E q \in Procs \ {p} : pc[q] = "fetch" /\ fn[q] = f /\ key[q] = k

\* C13 -- No single-flight: a call that finds its key absent or stale enters
\* fetch_func even when another call for the same key is already inside
\* fetch_func; it neither waits for that call nor shares its result, so two
\* fetches for one key are in progress at once.
C13_NoSingleFlight ==
    [][\A p \in Procs :
        (/\ Begins(p)
         /\ InFlight(p, fn'[p], key'[p])
         /\ \/ key'[p] \notin DOMAIN StoreOf(fn'[p])
            \/ now'[p] - StoreOf(fn'[p])[key'[p]].timestamp >= ttl_seconds'[p])
           => /\ pc'[p] = "fetch"
              /\ nfetch'[p] = 0
              /\ \A q \in Procs \ {p} : pc'[q] = pc[q]]_vars

\* two calls for the stale "a" of the stock store are inside fetch_func at once
C13_Witness ==
    /\ \A p \in Procs : pc[p] = "fetch" /\ fn[p] = "stock" /\ key[p] = "a"
                        /\ entry[p] # NoEntry
    /\ "a" \in DOMAIN STOCK_CACHE

\* payloads by which a closure reports that the upstream had no data
FailurePayloads == {ErrorPayload, "None"}

\* C14 -- No failed or partial result is ever stored: no entry of either store
\* holds a failure payload (the error dict of /analysis and /funds/.../history,
\* the None of a financial statement that does not exist).
C14_NoFailureStored ==
    probe.kind = "routes" =>
        /\ \A k \in DOMAIN STOCK_CACHE : STOCK_CACHE[k].data \notin FailurePayloads
        /\ \A k \in DOMAIN FUND_CACHE : FUND_CACHE[k].data \notin FailurePayloads

\* C15 -- Providers never raise across the provider boundary: whatever the
\* upstream answers (HTTP error, unparseable payload) and whatever the
\* identifier (also one with no match), a pull operation of the Canlidoviz and
\* TCMB providers ends by returning records, an empty or an unavailable result,
\* never with an exception.
C15_ProvidersNeverRaise ==
    (probe.kind = "providers" /\ probe.done) => probe.result.kind = "return"

\* the dates of a list of parsed rows never increase from one row to the next
SortedByDateDescending(rows) ==
    \A i \in 1 .. Len(rows) - 1 : rows[i].date >= rows[i + 1].date

\* C19 -- get_rate_history(rate_type) returns the parsed rows sorted by date
\* descending whatever the row order of the upstream table, and get_policy_rate,
\* which takes the first row, returns the row with the latest date.
C19_RateHistorySorted ==
    (probe.kind = "providers" /\ probe.done) =>
        LET c == probe.call
            parsed == fetch_and_parse_table(c.up)
        IN  /\ (c.op = "get_rate_history" /\ probe.result.kind = "return")
                  => SortedByDateDescending(probe.result.value)
            /\ (c.op = "get_policy_rate" /\ parsed # <<>>)
                  => \A i \in 1 .. Len(parsed) : probe.result.value.date >= parsed[i].date

\* a step that is one of the four lookups of the BIST index provider
BistLookup == probe.kind = "bist" /\ probe' # probe /\ probe'.op # "expire"

\* C16 -- BistIndexProvider degrades to empty results: no lookup raises; when the
\* download or the parse of the components CSV fails, get_components,
\* get_available_indices and get_indices_for_ticker return an empty list and
\* is_in_index returns False; get_components returns an empty list for an index
\* code that the dataset does not have; and a failed download is not
\* remembered: the lookup that follows one attempts the download again.
C16_BistDegradesToEmpty ==
    [][BistLookup =>
        /\ ~probe'.raised
        /\ probe'.failed =>
              /\ probe'.op = "get_components" => probe'.out = <<>>
              /\ probe'.op \in {"get_available_indices", "get_indices_for_ticker"}
                    => probe'.out = {}
              /\ probe'.op = "is_in_index" => probe'.out = FALSE
              /\ ~probe'.df_cache.loaded /\ ~probe'.mem.loaded
        /\ (probe'.op = "get_components" /\ probe'.a = "XU999") => probe'.out = <<>>
        /\ probe.failed => probe'.attempted]_vars

\* get_components found the download failing, for the second time in a row, and
\* returned the empty list
C16_Witness ==
    /\ probe.kind = "bist"
    /\ probe.op = "get_components" /\ probe.a = "XU100"
    /\ probe.failed /\ probe.ndown = 2
    /\ probe.out = <<>> /\ ~probe.raised
    /\ ~probe.df_cache.loaded

\* C17 -- Observability: a call that takes the miss path has printed exactly one
\* 'CACHE MISS' line when it enters fetch_func, before any invocation is made,
\* and prints nothing more, whether fetch_func then returns or raises; a call
\* that takes the hit path prints nothing.
C17_MissLoggedOnce ==
    [][\A p \in Procs :
        /\ Begins(p) =>
              /\ pc'[p] = "fetch" => (nlog'[p] = 1 /\ nfetch'[p] = 0)
              /\ pc'[p] = "hit" => nlog'[p] = 0
        /\ LeavesFetch(p) => (nlog[p] = 1 /\ nlog'[p] = 1 /\ nfetch'[p] = 1)
        /\ (pc[p] = "hit" /\ pc'[p] # "hit") => (nlog[p] = 0 /\ nlog'[p] = 0)]_vars

\* of the two calls made, one missed, printed its line and then saw fetch_func
\* raise; the other was a hit and printed nothing
C17_Witness ==
    \E p, q \in Procs :
        /\ ncalls = 2 /\ pc[p] = "idle" /\ pc[q] = "idle"
        /\ ret[p] = Raised /\ nfetch[p] = 1 /\ nlog[p] = 1
        /\ ret[q] = "V1" /\ nfetch[q] = 0 /\ nlog[q] = 0

\* C18 -- Overwrite semantics: a store maps a key to one entry, and whenever the
\* entry of a key appears or changes, it is because one call's fetch_func
\* returned, and the entry then is that call's value together with that call's
\* timestamp - both fields replaced at once, never one without the other.
C18_WholeEntryReplaced ==
    [][\A f \in {"fund", "stock"} :
        \A k \in DOMAIN StoreOfNext(f) :
            (k \notin DOMAIN StoreOf(f) \/ StoreOfNext(f)[k] # StoreOf(f)[k])
               => \E p \in Procs :
                     /\ LeavesFetch(p) /\ fn[p] = f /\ key[p] = k
                     /\ ret'[p] \in Values
                     /\ StoreOfNext(f)[k] = [data |-> ret'[p], timestamp |-> now[p]]]_vars

\* the stock store's "a", V1 from the start, has been refreshed: it now holds
\* None with a later timestamp, while the fund store still has the first entry
C18_Witness ==
    /\ "a" \in DOMAIN STOCK_CACHE /\ "a" \in DOMAIN FUND_CACHE
    /\ FUND_CACHE["a"].data = "V1"
    /\ STOCK_CACHE["a"].data = "None"
    /\ STOCK_CACHE["a"].timestamp > FUND_CACHE["a"].timestamp
    /\ \A p \in Procs : pc[p] = "idle"

\* C20 -- Eurobond(isin) raises DataNotAvailableError at construction when no
\* bond with that ISIN exists: a constructed Eurobond object always refers to a
\* bond of the provider's list.
C20_ConstructedBondExists ==
    (probe.kind = "eurobond" /\ probe.constructed) => probe.isin \in probe.bonds

\* C21 -- Error taxonomy is preserved: a Canlidoviz pull that fails because the
\* source has no data for the identifier (no item id, or a supported asset whose
\* recent history is empty) surfaces DataNotAvailableError, and one that fails
\* because of the upstream (HTTP error, unparseable body) surfaces APIError.
C21_TaxonomyPreserved ==
    (/\ probe.kind = "providers" /\ probe.done
     /\ probe.call.op \in {"cv_get_history", "cv_get_current"}
     /\ probe.result.kind = "raise")
        => LET c == probe.call
               no_data == \/ get_item_id(c.a, c.b) = NoId
                          \/ c.up = "bad_records"
           IN  probe.result.value =
                  IF no_data THEN "DataNotAvailableError" ELSE "APIError"

\* the entry a store holds for a key, NoEntry when it holds none
Lookup(cache, k) == IF k \in DOMAIN cache THEN cache[k] ELSE NoEntry

\* C22 -- Entry timestamp is the call's entry time: a call reads the clock once,
\* when it starts, and judges staleness at that instant; when its fetch_func
\* returns, the entry it stores carries that same instant, whatever the clock
\* shows by then, so the entry's age at the moment it is stored is the fetch
\* latency.
C22_StampIsEntryTime ==
    [][\A p \in Procs :
        /\ Begins(p)
           => /\ now'[p] = clock
              /\ (pc'[p] = "hit")
                    <=> /\ key'[p] \in DOMAIN StoreOf(fn'[p])
                        /\ now'[p] - StoreOf(fn'[p])[key'[p]].timestamp < ttl_seconds'[p]
        /\ (pc[p] = "fetch" /\ ~LeavesFetch(p)) => now'[p] = now[p]
        /\ (LeavesFetch(p) /\ ret'[p] # Raised)
           => /\ key[p] \in DOMAIN StoreOfNext(fn[p])
              /\ StoreOfNext(fn[p])[key[p]].timestamp = now[p]
              /\ clock' - StoreOfNext(fn[p])[key[p]].timestamp = clock - now[p]]_vars

\* a thread looked key "a" up, found nothing and is still fetching; the store now
\* holds "a" with a timestamp earlier than that lookup: the entry was stored after
\* the lookup by a call that had started before it
C22_Witness ==
    \E q \in Procs :
        /\ pc[q] = "fetch" /\ key[q] = "a" /\ entry[q] = NoEntry
        /\ "a" \in DOMAIN StoreOf(fn[q])
        /\ StoreOf(fn[q])["a"].timestamp < now[q]
        /\ StoreOf(fn[q])["a"].timestamp \in StartTimes

\* thread p takes a step of a call (its first, or the one that ends it)
Steps(p) == pc'[p] # pc[p]

\* the key of the call that thread p is taking a step of
KeyOfStep(p) == IF Begins(p) THEN key'[p] ELSE key[p]

\* the function of the call that thread p is taking a step of
FnOfStep(p) == IF Begins(p) THEN fn'[p] ELSE fn[p]

\* C23 -- Per-key frame: every step of a call for key k - its lookup, its hit
\* return, the return of its fetch_func, the failure of its fetch_func - leaves
\* each other key of the call's store as it was: the same value and timestamp
\* when it had an entry, still no entry when it had none, whatever other calls
\* are in flight.
C23_PerKeyFrame ==
    [][\A p \in Procs :
        Steps(p)
           => \A j \in Keys \ {KeyOfStep(p)} :
                 Lookup(StoreOfNext(FnOfStep(p)), j) = Lookup(StoreOf(FnOfStep(p)), j)]_vars

\* while a thread is fetching "a", having found the entry that is still there,
\* another thread started later a call for "b" on the same store and stored it
C23_Witness ==
    \E p, q \in Procs :
        /\ p # q /\ fn[p] = fn[q]
        /\ pc[q] = "fetch" /\ key[q] = "a"
        /\ entry[q] # NoEntry /\ Lookup(StoreOf(fn[q]), "a") = entry[q]
        /\ pc[p] = "idle" /\ key[p] = "b" /\ nfetch[p] = 1 /\ ret[p] \in Values
        /\ Lookup(StoreOf(fn[p]), "b").data = ret[p]
        /\ Lookup(StoreOf(fn[p]), "b").timestamp > now[q]

\* C26 -- Key set only grows: no step removes a key from FUND_CACHE or from
\* STOCK_CACHE; an entry that has expired stays in its store until a refetch of
\* its key overwrites it.
C26_KeySetGrows ==
    [][/\ DOMAIN FUND_CACHE \subseteq DOMAIN FUND_CACHE'
       /\ DOMAIN STOCK_CACHE \subseteq DOMAIN STOCK_CACHE']_vars

\* an entry older than the longest TTL is still in its store after a call found
\* it expired and failed to refetch it
C26_Witness ==
    \E p \in Procs :
        /\ pc[p] = "idle" /\ ret[p] = Raised /\ nfetch[p] = 1
        /\ key[p] \in DOMAIN StoreOf(fn[p])
        /\ clock - StoreOf(fn[p])[key[p]].timestamp >= COLD_TTL
        /\ \E x \in poisoned[fn[p]] : x[1] = key[p]

\* C29 -- Store independence: a fund call looks its key up in FUND_CACHE only
\* and no step of it changes STOCK_CACHE; a stock call looks its key up in
\* STOCK_CACHE only and no step of it changes FUND_CACHE.  The same key string
\* may therefore hold different entries in the two stores.
C29_StoreIndependence ==
    [][\A p \in Procs :
        /\ (Begins(p) /\ fn'[p] = "fund")
           => /\ entry'[p] = Lookup(FUND_CACHE, key'[p])
              /\ (pc'[p] = "hit") <=> /\ key'[p] \in DOMAIN FUND_CACHE
                                      /\ is_fresh(now'[p], FUND_CACHE[key'[p]], ttl_seconds'[p])
        /\ (Begins(p) /\ fn'[p] = "stock")
           => /\ entry'[p] = Lookup(STOCK_CACHE, key'[p])
              /\ (pc'[p] = "hit") <=> /\ key'[p] \in DOMAIN STOCK_CACHE
                                      /\ is_fresh(now'[p], STOCK_CACHE[key'[p]], ttl_seconds'[p])
        /\ (Steps(p) /\ FnOfStep(p) = "fund") => STOCK_CACHE' = STOCK_CACHE
        /\ (Steps(p) /\ FnOfStep(p) = "stock") => FUND_CACHE' = FUND_CACHE]_vars

\* both stores hold "b", stamped at the same instant, with different data: a fund
\* call stored None under it in FUND_CACHE while STOCK_CACHE holds V1
C29_Witness ==
    \E p \in Procs :
        /\ pc[p] = "idle" /\ fn[p] = "fund" /\ key[p] = "b"
        /\ nfetch[p] = 1 /\ ret[p] = "None"
        /\ "b" \in DOMAIN STOCK_CACHE /\ "b" \in DOMAIN FUND_CACHE
        /\ STOCK_CACHE["b"].data = "V1" /\ FUND_CACHE["b"].data = "None"
        /\ STOCK_CACHE["b"].timestamp = FUND_CACHE["b"].timestamp

\* C27 (as claimed) -- Timestamp monotonicity: for any key of either store, no
\* step replaces the key's entry by one with a smaller timestamp, concurrent
\* misses that finish in another order than they started included.
C27_TimestampMonotone ==
    [][/\ \A k \in DOMAIN FUND_CACHE :
            Lookup(FUND_CACHE', k).timestamp >= FUND_CACHE[k].timestamp
       /\ \A k \in DOMAIN STOCK_CACHE :
            Lookup(STOCK_CACHE', k).timestamp >= STOCK_CACHE[k].timestamp]_vars

\* C27 (amended) -- a write never decreases the key's timestamp when the entry it
\* replaces is the one the writing call found at its lookup (no other call has
\* stored the key meanwhile).  A write that decreases it is that of a call whose
\* lookup came before the replaced entry was stored: the replaced entry differs
\* from the one the call found and is stamped later than the call's own `now`.
C27_MonotoneUnlessOvertaken ==
    [][\A p \in Procs :
        (LeavesFetch(p) /\ key[p] \in DOMAIN StoreOf(fn[p]))
           => LET old == StoreOf(fn[p])[key[p]]
                  new == Lookup(StoreOfNext(fn[p]), key[p])
              IN  /\ old = entry[p] => new.timestamp >= old.timestamp
                  /\ new.timestamp < old.timestamp
                        => /\ old # entry[p]
                           /\ old.timestamp > now[p]
                           /\ new.timestamp = now[p]]_vars

\* two calls went the two ways: one replaced the entry it had found stale by a
\* later-stamped one, and a call that had started before that entry was stored has
\* since replaced it by an earlier-stamped one -- or is about to
C27_Witness ==
    \E p, q \in Procs :
        /\ p # q /\ fn[p] = fn[q] /\ key[p] = key[q]
        /\ pc[p] = "fetch" /\ pc[q] = "idle" /\ nfetch[q] = 1 /\ ret[q] \in Values
        /\ key[p] \in DOMAIN StoreOf(fn[p])
        /\ StoreOf(fn[p])[key[p]] # entry[p]
        /\ StoreOf(fn[p])[key[p]].timestamp > now[p]

\* the TTLs under which earlier lookups -- by a call still inside fetch_func, or by
\* a call that has since failed -- judged stale the very entry that thread p's
\* starting call now finds under its key
EarlierStaleTtls(p) ==
    IF Begins(p) /\ key'[p] \in DOMAIN StoreOf(fn'[p])
    THEN {ttl_seconds[q] : q \in {r \in Procs \ {p} :
                                     /\ pc[r] = "fetch" /\ fn[r] = fn'[p] /\ key[r] = key'[p]
                                     /\ entry[r] = StoreOf(fn[r])[key[r]]
                                     /\ now[r] < now'[p]}}
         \cup {x[2] : x \in {y \in poisoned[fn'[p]] : y[1] = key'[p]}}
    ELSE {}

\* C28 (as claimed) -- Staleness is monotone in time: when a lookup has judged an
\* entry stale and no fetch has replaced the entry since, a later lookup of the
\* same key judges it stale too and enters fetch_func: in the stock store under
\* the same ttl_seconds, in the fund store under whatever TTL (900 s or 14400 s)
\* the policy gives at the later instant.
C28_StalenessMonotone ==
    [][\A p \in Procs :
        (\E earlier \in EarlierStaleTtls(p) :
            fn'[p] = "stock" => ttl_seconds'[p] = earlier)
           => pc'[p] = "fetch"]_vars

\* C28 (amended) -- as above when the TTL in force at the later lookup is no larger
\* than the TTL of the earlier one: always so for a stock key with its fixed TTL,
\* and for a fund key unless the hot window has closed in between.
C28_StalenessMonotoneWhileTtlHolds ==
    [][\A p \in Procs :
        (\E earlier \in EarlierStaleTtls(p) : ttl_seconds'[p] <= earlier)
           => pc'[p] = "fetch"]_vars

\* a fund call found "a" stale in the hot window and is fetching; a call started
\* later in the hot window found the same entry, stale, and is fetching too
C28_Witness ==
    \E p, q \in Procs :
        /\ p # q
        /\ pc[q] = "fetch" /\ fn[q] = "fund" /\ key[q] = "a"
        /\ pc[p] = "fetch" /\ fn[p] = "fund" /\ key[p] = "a"
        /\ entry[q] # NoEntry /\ entry[p] = entry[q]
        /\ Lookup(FUND_CACHE, "a") = entry[q]
        /\ now[q] < now[p]
        /\ ttl_seconds[p] = HOT_TTL /\ ttl_seconds[q] = HOT_TTL

\* C24 -- Bond-to-Eurobond fallback: a GET /bonds/{name} request is answered 404
\* (its fetch closure raised) only when neither a Bond nor a Eurobond of that
\* name exists; when the Bond lookup fails and the Eurobond provider lists the
\* name, the request is answered with a result of type 'Eurobond', which is what
\* the store then holds under BOND_{name}.
C24_EurobondFallback ==
    probe.kind = "bonds" =>
        \A p \in Procs :
            (pc[p] = "idle" /\ nfetch[p] = 1 /\ key[p] \in probe.eurobonds)
               => /\ ret[p] # Raised
                  /\ ret[p] = "Eurobond" => Lookup(STOCK_CACHE, key[p]).data \in {"Bond", "Eurobond"}

\* a step that reads a property of the constructed Eurobond
EurobondRead == probe.kind = "eurobond" /\ probe.constructed /\ probe' # probe

\* C25 -- Eurobond lazy load: once _data_cache holds the bond, a property read
\* makes no provider call, leaves _data_cache as it is and answers from it; while
\* _data_cache is None a property read makes exactly one provider call, and when
\* the provider does not have the bond the read raises DataNotAvailableError and
\* _data_cache is None again, so the next read asks the provider once more.
C25_LazyLoad ==
    [][EurobondRead =>
        /\ probe.data_cache # NoBond
              => /\ probe'.nlookups = probe.nlookups
                 /\ probe'.data_cache = probe.data_cache
                 /\ probe'.out = Returned(<<probe'.op, probe.data_cache>>)
        /\ probe.data_cache = NoBond
              => /\ probe'.nlookups = probe.nlookups + 1
                 /\ probe'.data_cache = get_eurobond(probe.bonds, probe.isin)
                 /\ (probe'.data_cache = NoBond)
                       <=> (probe'.out = Thrown("DataNotAvailableError"))
                 /\ probe.nlookups > 0
                       => /\ probe'.data_cache = NoBond
                          /\ probe'.out = Thrown("DataNotAvailableError")]_vars

\* three property reads of a bond the provider does not list: three provider
\* calls, the last read raised, _data_cache is still None
C25_Witness ==
    /\ probe.kind = "eurobond" /\ probe.constructed
    /\ probe.nlookups >= 3
    /\ probe.data_cache = NoBond
    /\ probe.out = Thrown("DataNotAvailableError")

\* C30 -- The BIST dataset is downloaded at most once per provider instance: a
\* download is attempted only while neither _df_cache nor the provider cache
\* holds the dataset; once _df_cache holds it, every lookup is answered from it
\* with no download attempt, leaves both caches as they are and gives the answer
\* the dataset determines, whether or not the provider-cache entry has run out
\* meanwhile; the expiry itself leaves _df_cache untouched.
C30_DownloadedOnce ==
    [][/\ (BistLookup /\ probe'.attempted)
             => ~probe.df_cache.loaded /\ ~probe.mem.loaded
       /\ (BistLookup /\ probe.df_cache.loaded)
             => /\ ~probe'.attempted /\ probe'.ndown = probe.ndown
                /\ probe'.df_cache = probe.df_cache
                /\ probe'.mem = probe.mem
                /\ ~probe'.failed /\ ~probe'.raised
                /\ probe'.op = "get_components"
                      => probe'.out = components_of(probe.df_cache, str_upper(probe'.a))
                /\ probe'.op = "is_in_index"
                      => probe'.out = (\E row \in RowsOf(probe.df_cache) :
                                          /\ row.symbol = str_upper(probe'.a)
                                          /\ row.index_code = str_upper(probe'.b))
                /\ probe'.op = "get_indices_for_ticker"
                      => probe'.out = {row.index_code : row \in
                                          {r \in RowsOf(probe.df_cache) :
                                              r.symbol = str_upper(probe'.a)}}
       /\ (probe.kind = "bist" /\ probe'.op = "expire")
             => probe'.df_cache = probe.df_cache]_vars

\* the dataset was downloaded once; the provider-cache entry has run out since,
\* and get_components still lists the index from _df_cache without a download
C30_Witness ==
    /\ probe.kind = "bist"
    /\ probe.df_cache.loaded /\ ~probe.mem.loaded
    /\ probe.ndown = 1 /\ ~probe.attempted
    /\ probe.op = "get_components" /\ probe.a = "xu030"
    /\ probe.out # <<>>

=============================================================================
